---- MODULE Spec2Model ----
(***************************************************************************)
(* RoleDao (src/src/services/user/role.dao.ts): permission resolution,     *)
(* store access, attribute filtering and audit emission of the seven role  *)
(* operations.  Every await of a handler is a step of its own, so that     *)
(* calls can interleave at the store.                                      *)
(***************************************************************************)
EXTENDS Integers, Sequences, FiniteSets, TLC

VARIABLES store, now, pc, op, arg, local, outcome, ret, events, storeLog, pre, lastAdd, seed

vars == <<store, now, pc, op, arg, local, outcome, ret, events, storeLog, pre, lastAdd, seed>>

----------------------------------------------------------------------------
(* Bounds *)

MaxPermId == 2
MaxClock == 1
MaxPriorPerms == 2

PermIds == 1..MaxPermId
RoleOrder == <<"r1", "r2">>
RoleIds == {RoleOrder[i] : i \in 1..Len(RoleOrder)}
Users == {"admin", "editor", "guest"}
Procs == {1, 2}
SeqProcs == {1}

----------------------------------------------------------------------------
(* Values *)

None == [some |-> FALSE]
Some(v) == [some |-> TRUE, v |-> v]

NoData == [x \in {} |-> 0]

resource == "role"
rolePermissionResource == "rolepermission"

READ == "read"
CREATE == "create"
UPDATE == "update"
DELETE == "delete"
ADD == "add"
REMOVE == "remove"

Digits == <<"1", "2", "3", "4", "5", "6">>

\* String(x) of a numeric id: its decimal text.
String(n) == Digits[n]

PermissionIdArgs == {String(n) : n \in PermIds}

RECURSIVE SetToSeq(_)
SetToSeq(S) ==
  IF S = {} THEN <<>>
  ELSE LET m == CHOOSE x \in S : \A y \in S : x <= y
       IN <<m>> \o SetToSeq(S \ {m})

SeqToSet(s) == {s[i] : i \in 1..Len(s)}

\* the push left out
push_forgotten(s, x) == s

\* Array.prototype.push
push(s, x) == Append(s, x)

----------------------------------------------------------------------------
(* Attribute masks and permission resolution (utils/authorization.helper) *)

Star == [deny |-> FALSE, field |-> "*"]
Allow(f) == [deny |-> FALSE, field |-> f]
Deny(f) == [deny |-> TRUE, field |-> f]

compile(spec) ==
  [star  |-> spec = <<>> \/ \E i \in 1..Len(spec) : spec[i] = Star,
   allow |-> {spec[i].field : i \in {j \in 1..Len(spec) : ~spec[j].deny /\ spec[j].field # "*"}},
   deny  |-> {spec[i].field : i \in {j \in 1..Len(spec) : spec[j].deny}}]

Allowed(mask, f) == f \notin mask.deny /\ (mask.star \/ f \in mask.allow)

\* apply(mask, record): a new record holding only the allowed fields
apply(masks, rec) ==
  [f \in {g \in DOMAIN rec : \E m \in masks : Allowed(m, g)} |-> rec[f]]

\* apply(mask, sequence): element-wise
applyAll(masks, recs) == [i \in 1..Len(recs) |-> apply(masks, recs[i])]

AnyAction(verb) == [verb |-> verb, possession |-> "any"]

GrantsFor(attributes) ==
  {[resource |-> r, action |-> AnyAction(v), attributes |-> attributes] :
     r \in {resource, rolePermissionResource}, v \in {CREATE, READ, UPDATE, DELETE}}

\* the Permissions of the Roles an actor holds
UserPermissions(user) ==
  CASE user = "admin"  -> GrantsFor(<<Star>>)
    [] user = "editor" -> GrantsFor(<<Star, Deny("description")>>)
    [] OTHER           -> {}

Qualifies(perm, isOwnerOrMember, action, res) ==
  /\ perm.resource = res
  /\ perm.action.verb = action
  /\ \/ perm.action.possession = "any"
     \/ perm.action.possession = "own" /\ isOwnerOrMember

getPermission(user, isOwnerOrMember, action, res) ==
  LET qualifying == {perm \in UserPermissions(user) : Qualifies(perm, isOwnerOrMember, action, res)}
  IN [granted |-> qualifying # {},
      masks   |-> {compile(perm.attributes) : perm \in qualifying},
      action  |-> action,
      resource |-> res]

Unresolved == [granted |-> FALSE, masks |-> {}, action |-> "-", resource |-> "-"]

----------------------------------------------------------------------------
(* The store collaborator: Repository<Role> *)

\* a Permission entity as loaded through the "permissions" relation
PermissionEntity(n) == [id |-> n]

\* a Role entity as the repository returns it
RoleEntity(st, id, relations) ==
  IF relations
  THEN [id |-> id, description |-> st[id].v.description,
        permissions |-> [i \in 1..Cardinality(st[id].v.permissions) |->
                           PermissionEntity(SetToSeq(st[id].v.permissions)[i])]]
  ELSE [id |-> id, description |-> st[id].v.description]

\* roleRepository.find({ relations: ["permissions"] })
find(st) ==
  LET present == SelectSeq(RoleOrder, LAMBDA id : st[id].some)
  IN [i \in 1..Len(present) |-> RoleEntity(st, present[i], TRUE)]

\* roleRepository.findOne(id, { relations })
findOne(st, id, relations) ==
  IF st[id].some THEN Some(RoleEntity(st, id, relations)) ELSE None

\* the key a saved record is stored under: its id, or a generated one
SaveKey(st, rec) ==
  IF "id" \in DOMAIN rec THEN Some(rec.id)
  ELSE IF \E id \in RoleIds : ~st[id].some
       THEN Some(RoleOrder[CHOOSE i \in 1..Len(RoleOrder) :
                    /\ ~st[RoleOrder[i]].some
                    /\ \A j \in 1..(i - 1) : st[RoleOrder[j]].some])
       ELSE None

\* roleRepository.save(record): the fields the record carries replace the stored ones
StoreSave(st, rec) ==
  LET id  == SaveKey(st, rec).v
      old == IF st[id].some THEN st[id].v ELSE [description |-> "d0", permissions |-> {}]
      new == [description |-> IF "description" \in DOMAIN rec THEN rec.description
                              ELSE old.description,
              permissions |-> IF "permissions" \in DOMAIN rec
                              THEN {rec.permissions[i].id : i \in 1..Len(rec.permissions)}
                              ELSE old.permissions]
  IN [st EXCEPT ![id] = Some(new)]

\* the entity save resolves to
SavedEntity(st, rec) == [id |-> SaveKey(st, rec).v] @@ rec

\* roleRepository.remove(record)
StoreRemove(st, rec) == [st EXCEPT ![rec.id] = None]

----------------------------------------------------------------------------
(* Outcomes of a call *)

Pending == [kind |-> "pending", id |-> "-", action |-> "-", resource |-> "-"]
Ok == [kind |-> "ok", id |-> "-", action |-> "-", resource |-> "-"]
StoreFailure == [kind |-> "StoreFailure", id |-> "-", action |-> "-", resource |-> "-"]
FilterFailure == [kind |-> "FilterFailure", id |-> "-", action |-> "-", resource |-> "-"]

UserNotAuthorizedException(userId, action, res) ==
  [kind |-> "UserNotAuthorizedException", id |-> userId, action |-> action, resource |-> res]

RecordNotFoundException(id) ==
  [kind |-> "RecordNotFoundException", id |-> id, action |-> "-", resource |-> "-"]

RecordsNotFoundException(res) ==
  [kind |-> "RecordsNotFoundException", id |-> "-", action |-> "-", resource |-> res]

----------------------------------------------------------------------------
(* Per-call state *)

NoArgs == [user |-> "-", id |-> "-", data |-> NoData, permissionId |-> "-"]

NoLocal == [started |-> 0, resolved |-> FALSE, permission |-> Unresolved,
            records |-> None, record |-> None, filteredData |-> None]

NoAdd == [some |-> FALSE, id |-> "-", item |-> 0, before |-> {}]

\* the database before createTestData has run
Unseeded == [step |-> 0, roles |-> [id \in {"user", "admin"} |-> None], users |-> <<>>]

Init ==
  /\ seed = Unseeded
  /\ store = [id \in RoleIds |->
                IF id = "r1" THEN Some([description |-> "d0", permissions |-> {}]) ELSE None]
  /\ now = 0
  /\ pc = [p \in Procs |-> "idle"]
  /\ op = [p \in Procs |-> "-"]
  /\ arg = [p \in Procs |-> NoArgs]
  /\ local = [p \in Procs |-> NoLocal]
  /\ outcome = [p \in Procs |-> Pending]
  /\ ret = [p \in Procs |-> None]
  /\ events = [p \in Procs |-> <<>>]
  /\ storeLog = [p \in Procs |-> <<>>]
  /\ pre = [p \in Procs |-> store]
  /\ lastAdd = [p \in Procs |-> NoAdd]

\* Date.now() advances
Tick ==
  /\ now < MaxClock
  /\ now' = now + 1
  /\ UNCHANGED <<store, pc, op, arg, local, outcome, ret, events, storeLog, pre, lastAdd, seed>>

\* entry of a handler: "const started = Date.now()" and the call's arguments
Begin(p, o, a) ==
  /\ pc[p] = "idle"
  /\ op' = [op EXCEPT ![p] = o]
  /\ arg' = [arg EXCEPT ![p] = a]
  /\ local' = [local EXCEPT ![p] = [NoLocal EXCEPT !.started = now]]
  /\ pre' = [pre EXCEPT ![p] = store]
  /\ lastAdd' = [lastAdd EXCEPT ![p] =
        IF /\ o = "removePermission" /\ lastAdd[p].some
           /\ lastAdd[p].id = a.id /\ String(lastAdd[p].item) = a.permissionId
        THEN lastAdd[p] ELSE NoAdd]
  /\ UNCHANGED <<store, now, outcome, ret, events, storeLog, seed>>

\* the promise of a finished call settles: its caller has the result and the
\* call's frame is gone
Settle(p) ==
  /\ pc[p] = "done"
  /\ pc' = [pc EXCEPT ![p] = "idle"]
  /\ op' = [op EXCEPT ![p] = "-"]
  /\ arg' = [arg EXCEPT ![p] = NoArgs]
  /\ local' = [local EXCEPT ![p] = NoLocal]
  /\ outcome' = [outcome EXCEPT ![p] = Pending]
  /\ ret' = [ret EXCEPT ![p] = None]
  /\ events' = [events EXCEPT ![p] = <<>>]
  /\ storeLog' = [storeLog EXCEPT ![p] = <<>>]
  /\ pre' = [pre EXCEPT ![p] = store]
  /\ lastAdd' = [lastAdd EXCEPT ![p] =
        IF op[p] = "addPermission" /\ outcome[p].kind = "ok"
        THEN [some |-> TRUE, id |-> arg[p].id, item |-> arg[p].data.id,
              before |-> pre[p][arg[p].id].v.permissions]
        ELSE NoAdd]
  /\ UNCHANGED <<store, now, seed>>

Goto(p, label) ==
  /\ pc' = [pc EXCEPT ![p] = label]
  /\ UNCHANGED <<outcome, ret, seed>>

Throw(p, exception) ==
  /\ pc' = [pc EXCEPT ![p] = "done"]
  /\ outcome' = [outcome EXCEPT ![p] = exception]
  /\ UNCHANGED ret

Return(p, value) ==
  /\ pc' = [pc EXCEPT ![p] = "done"]
  /\ outcome' = [outcome EXCEPT ![p] = Ok]
  /\ ret' = [ret EXCEPT ![p] = Some(value)]

\* a store call made by the handler, as the store sees it
StoreCall(p, call, ok, handed, result) ==
  storeLog' = [storeLog EXCEPT ![p] =
                 Append(@, [call |-> call, ok |-> ok, handed |-> handed, result |-> result,
                            masks |-> local[p].permission.masks])]

NullObject == [type |-> "null"]

Activity(userId, object, res, target, timestamp, took, type) ==
  [actor |-> [id |-> userId, type |-> "Person"], object |-> object, resource |-> res,
   target |-> target, timestamp |-> timestamp, took |-> took, type |-> type]

\* event.emit(name, activity): the record is published; a subscriber may fail while
\* processing it, and the channel keeps that failure from the emitting call
emit(p, name, activity) ==
  \E subscriberFails \in BOOLEAN :
    events' = [events EXCEPT ![p] =
                 Append(@, [name |-> name, activity |-> activity,
                            subscriberFailed |-> subscriberFails])]

----------------------------------------------------------------------------
(* RoleDao.getAll *)

getAll(p, user) ==
  /\ Begin(p, "getAll", [NoArgs EXCEPT !.user = user])
  /\ pc' = [pc EXCEPT ![p] = "getAll_find"]

\* await roleRepository.find(...), then the call of getPermission
getAll_find(p) ==
  /\ pc[p] = "getAll_find"
  /\ \E failure \in BOOLEAN, absent \in BOOLEAN :
       /\ StoreCall(p, "find", ~failure, NoData,
                    IF failure \/ absent THEN None ELSE Some(find(store)))
       /\ IF failure
          THEN Throw(p, StoreFailure) /\ UNCHANGED local
          ELSE /\ local' = [local EXCEPT ![p].records =
                              IF absent THEN None ELSE Some(find(store))]
               /\ Goto(p, "getAll_resolve")
  /\ UNCHANGED <<store, now, op, arg, events, pre, lastAdd, seed>>

\* getAll_resolve with the check "!records || records.length === 0"
getAll_resolve_emptyIsNotFound(p) ==
  /\ pc[p] = "getAll_resolve"
  /\ LET user == arg[p].user
         records == local[p].records
         action == READ
         permission == getPermission(user, FALSE, action, resource)
         ended == now
     IN /\ local' = [local EXCEPT ![p].resolved = TRUE, ![p].permission = permission]
        /\ IF permission.granted
           THEN IF ~records.some \/ Len(records.v) = 0
                THEN Throw(p, RecordsNotFoundException(resource)) /\ UNCHANGED events
                ELSE /\ emit(p, action, Activity(user, NullObject, resource, None,
                                                 ended, ended - local[p].started, action))
                     /\ \E filterFails \in BOOLEAN :
                          IF filterFails THEN Throw(p, FilterFailure)
                          ELSE Return(p, [data |-> applyAll(permission.masks, records.v),
                                          length |-> Len(records.v),
                                          total |-> Len(records.v)])
           ELSE Throw(p, UserNotAuthorizedException(user, action, resource)) /\ UNCHANGED events
  /\ UNCHANGED <<store, now, op, arg, storeLog, pre, lastAdd, seed>>

\* await getPermission(...) and the rest of the handler
getAll_resolve(p) ==
  /\ pc[p] = "getAll_resolve"
  /\ LET user == arg[p].user
         records == local[p].records
         action == READ
         permission == getPermission(user, FALSE, action, resource)
         ended == now
     IN /\ local' = [local EXCEPT ![p].resolved = TRUE, ![p].permission = permission]
        /\ IF permission.granted
           THEN IF ~records.some
                THEN Throw(p, RecordsNotFoundException(resource)) /\ UNCHANGED events
                ELSE /\ emit(p, action, Activity(user, NullObject, resource, None,
                                                 ended, ended - local[p].started, action))
                     /\ \E filterFails \in BOOLEAN :
                          IF filterFails THEN Throw(p, FilterFailure)
                          ELSE Return(p, [data |-> applyAll(permission.masks, records.v),
                                          length |-> Len(records.v),
                                          total |-> Len(records.v)])
           ELSE Throw(p, UserNotAuthorizedException(user, action, resource)) /\ UNCHANGED events
  /\ UNCHANGED <<store, now, op, arg, storeLog, pre, lastAdd, seed>>

----------------------------------------------------------------------------
(* RoleDao.getOne *)

getOne(p, user, id) ==
  /\ Begin(p, "getOne", [NoArgs EXCEPT !.user = user, !.id = id])
  /\ pc' = [pc EXCEPT ![p] = "getOne_findOne"]

getOne_findOne(p) ==
  /\ pc[p] = "getOne_findOne"
  /\ \E failure \in BOOLEAN :
       /\ StoreCall(p, "findOne", ~failure, NoData,
                    IF failure THEN None ELSE findOne(store, arg[p].id, TRUE))
       /\ IF failure
          THEN Throw(p, StoreFailure) /\ UNCHANGED local
          ELSE /\ local' = [local EXCEPT ![p].record = findOne(store, arg[p].id, TRUE)]
               /\ Goto(p, "getOne_resolve")
  /\ UNCHANGED <<store, now, op, arg, events, pre, lastAdd, seed>>

\* getOne_resolve with the two checks in the other order
getOne_resolve_notFoundFirst(p) ==
  /\ pc[p] = "getOne_resolve"
  /\ LET user == arg[p].user
         id == arg[p].id
         record == local[p].record
         action == READ
         permission == getPermission(user, FALSE, action, resource)
         ended == now
     IN /\ local' = [local EXCEPT ![p].resolved = TRUE, ![p].permission = permission]
        /\ IF ~record.some
           THEN Throw(p, RecordNotFoundException(id)) /\ UNCHANGED events
           ELSE IF permission.granted
                THEN /\ emit(p, action, Activity(user, [id |-> record.v.id, type |-> resource],
                                                 resource, None,
                                                 ended, ended - local[p].started, action))
                     /\ \E filterFails \in BOOLEAN :
                          IF filterFails THEN Throw(p, FilterFailure)
                          ELSE Return(p, apply(permission.masks, record.v))
                ELSE /\ Throw(p, UserNotAuthorizedException(user, action, resource))
                     /\ UNCHANGED events
  /\ UNCHANGED <<store, now, op, arg, storeLog, pre, lastAdd, seed>>

getOne_resolve(p) ==
  /\ pc[p] = "getOne_resolve"
  /\ LET user == arg[p].user
         id == arg[p].id
         record == local[p].record
         action == READ
         permission == getPermission(user, FALSE, action, resource)
         ended == now
     IN /\ local' = [local EXCEPT ![p].resolved = TRUE, ![p].permission = permission]
        /\ IF permission.granted
           THEN IF ~record.some
                THEN Throw(p, RecordNotFoundException(id)) /\ UNCHANGED events
                ELSE /\ emit(p, action, Activity(user, [id |-> record.v.id, type |-> resource],
                                                 resource, None,
                                                 ended, ended - local[p].started, action))
                     /\ \E filterFails \in BOOLEAN :
                          IF filterFails THEN Throw(p, FilterFailure)
                          ELSE Return(p, apply(permission.masks, record.v))
           ELSE Throw(p, UserNotAuthorizedException(user, action, resource)) /\ UNCHANGED events
  /\ UNCHANGED <<store, now, op, arg, storeLog, pre, lastAdd, seed>>

----------------------------------------------------------------------------
(* RoleDao.save *)

SaveInputs ==
  {[id |-> "r1", description |-> "d1"],
   [id |-> "r2", description |-> "d1"],
   [description |-> "d1"]}

save(p, user, data) ==
  /\ Begin(p, "save", [NoArgs EXCEPT !.user = user, !.data = data])
  /\ pc' = [pc EXCEPT ![p] = "save_resolve"]

\* data.id ? ActivityType.CREATE : ActivityType.UPDATE
save_action_inverted(data) == IF "id" \in DOMAIN data THEN CREATE ELSE UPDATE

\* data.id ? ActivityType.UPDATE : ActivityType.CREATE
save_action(data) == IF "id" \in DOMAIN data THEN UPDATE ELSE CREATE

save_resolve(p) ==
  /\ pc[p] = "save_resolve"
  /\ LET user == arg[p].user
         newRecord == arg[p].data
         action == save_action(arg[p].data)
         permission == getPermission(user, FALSE, action, resource)
     IN IF permission.granted
        THEN \E filterFails \in BOOLEAN :
               IF filterFails
               THEN /\ Throw(p, FilterFailure)
                    /\ local' = [local EXCEPT ![p].resolved = TRUE, ![p].permission = permission]
               ELSE /\ local' = [local EXCEPT ![p].resolved = TRUE, ![p].permission = permission,
                                              ![p].filteredData =
                                                 Some(apply(permission.masks, newRecord))]
                    /\ Goto(p, "save_save")
        ELSE /\ Throw(p, UserNotAuthorizedException(user, action, resource))
             /\ local' = [local EXCEPT ![p].resolved = TRUE, ![p].permission = permission]
  /\ UNCHANGED <<store, now, op, arg, events, storeLog, pre, lastAdd, seed>>

\* save_save with the subscriber's failure reaching the handler
save_save_emitThrows(p) ==
  /\ pc[p] = "save_save"
  /\ LET user == arg[p].user
         action == local[p].permission.action
         filteredData == local[p].filteredData.v
         ended == now
     IN \E failure \in BOOLEAN :
          LET failed == failure \/ ~SaveKey(store, filteredData).some
              savedData == SavedEntity(store, filteredData)
          IN /\ StoreCall(p, "save", ~failed, filteredData, None)
             /\ IF failed
                THEN Throw(p, StoreFailure) /\ UNCHANGED <<store, events>>
                ELSE /\ store' = StoreSave(store, filteredData)
                     /\ emit(p, action, Activity(user, [type |-> resource] @@ savedData,
                                                 resource, None,
                                                 ended, ended - local[p].started, action))
                     /\ IF events'[p][Len(events'[p])].subscriberFailed
                        THEN Throw(p, StoreFailure)
                        ELSE Return(p, savedData)
  /\ UNCHANGED <<now, op, arg, local, pre, lastAdd, seed>>

\* await roleRepository.save(filteredData) and the rest of the handler
save_save(p) ==
  /\ pc[p] = "save_save"
  /\ LET user == arg[p].user
         action == local[p].permission.action
         filteredData == local[p].filteredData.v
         ended == now
     IN \E failure \in BOOLEAN :
          LET failed == failure \/ ~SaveKey(store, filteredData).some
              savedData == SavedEntity(store, filteredData)
          IN /\ StoreCall(p, "save", ~failed, filteredData, None)
             /\ IF failed
                THEN Throw(p, StoreFailure) /\ UNCHANGED <<store, events>>
                ELSE /\ store' = StoreSave(store, filteredData)
                     /\ emit(p, action, Activity(user, [type |-> resource] @@ savedData,
                                                 resource, None,
                                                 ended, ended - local[p].started, action))
                     /\ Return(p, savedData)
  /\ UNCHANGED <<now, op, arg, local, pre, lastAdd, seed>>

----------------------------------------------------------------------------
(* RoleDao.remove *)

remove(p, user, id) ==
  /\ Begin(p, "remove", [NoArgs EXCEPT !.user = user, !.id = id])
  /\ pc' = [pc EXCEPT ![p] = "remove_findOne"]

remove_findOne(p) ==
  /\ pc[p] = "remove_findOne"
  /\ \E failure \in BOOLEAN :
       /\ StoreCall(p, "findOne", ~failure, NoData,
                    IF failure THEN None ELSE findOne(store, arg[p].id, FALSE))
       /\ IF failure
          THEN Throw(p, StoreFailure) /\ UNCHANGED local
          ELSE /\ local' = [local EXCEPT ![p].record = findOne(store, arg[p].id, FALSE)]
               /\ Goto(p, "remove_resolve")
  /\ UNCHANGED <<store, now, op, arg, events, pre, lastAdd, seed>>

\* remove_resolve with the two checks in the other order
remove_resolve_notFoundFirst(p) ==
  /\ pc[p] = "remove_resolve"
  /\ LET user == arg[p].user
         id == arg[p].id
         recordToRemove == local[p].record
         action == DELETE
         permission == getPermission(user, FALSE, action, resource)
     IN /\ local' = [local EXCEPT ![p].resolved = TRUE, ![p].permission = permission]
        /\ IF recordToRemove.some
           THEN IF permission.granted
                THEN Goto(p, "remove_remove")
                ELSE Throw(p, UserNotAuthorizedException(user, action, resource))
           ELSE Throw(p, RecordNotFoundException(id))
  /\ UNCHANGED <<store, now, op, arg, events, storeLog, pre, lastAdd, seed>>

remove_resolve(p) ==
  /\ pc[p] = "remove_resolve"
  /\ LET user == arg[p].user
         id == arg[p].id
         recordToRemove == local[p].record
         action == DELETE
         permission == getPermission(user, FALSE, action, resource)
     IN /\ local' = [local EXCEPT ![p].resolved = TRUE, ![p].permission = permission]
        /\ IF permission.granted
           THEN IF recordToRemove.some
                THEN Goto(p, "remove_remove")
                ELSE Throw(p, RecordNotFoundException(id))
           ELSE Throw(p, UserNotAuthorizedException(user, action, resource))
  /\ UNCHANGED <<store, now, op, arg, events, storeLog, pre, lastAdd, seed>>

\* await roleRepository.remove(recordToRemove) and the rest of the handler
\* remove_remove without the event.emit
remove_remove_noEmit(p) ==
  /\ pc[p] = "remove_remove"
  /\ LET recordToRemove == local[p].record.v
     IN \E failure \in BOOLEAN :
          /\ StoreCall(p, "remove", ~failure, recordToRemove, None)
          /\ IF failure
             THEN Throw(p, StoreFailure) /\ UNCHANGED <<store, events>>
             ELSE /\ store' = StoreRemove(store, recordToRemove)
                  /\ UNCHANGED events
                  /\ Return(p, TRUE)
  /\ UNCHANGED <<now, op, arg, local, pre, lastAdd, seed>>

remove_remove(p) ==
  /\ pc[p] = "remove_remove"
  /\ LET user == arg[p].user
         id == arg[p].id
         recordToRemove == local[p].record.v
         action == local[p].permission.action
         ended == now
     IN \E failure \in BOOLEAN :
          /\ StoreCall(p, "remove", ~failure, recordToRemove, None)
          /\ IF failure
             THEN Throw(p, StoreFailure) /\ UNCHANGED <<store, events>>
             ELSE /\ store' = StoreRemove(store, recordToRemove)
                  /\ emit(p, action, Activity(user, [id |-> id, type |-> "role"],
                                              resource, None,
                                              ended, ended - local[p].started, action))
                  /\ Return(p, TRUE)
  /\ UNCHANGED <<now, op, arg, local, pre, lastAdd, seed>>

----------------------------------------------------------------------------
(* RoleDao.getPermissions *)

getPermissions(p, user, id) ==
  /\ Begin(p, "getPermissions", [NoArgs EXCEPT !.user = user, !.id = id])
  /\ pc' = [pc EXCEPT ![p] = "getPermissions_findOne"]

getPermissions_findOne(p) ==
  /\ pc[p] = "getPermissions_findOne"
  /\ \E failure \in BOOLEAN :
       /\ StoreCall(p, "findOne", ~failure, NoData,
                    IF failure THEN None ELSE findOne(store, arg[p].id, TRUE))
       /\ IF failure
          THEN Throw(p, StoreFailure) /\ UNCHANGED local
          ELSE /\ local' = [local EXCEPT ![p].record = findOne(store, arg[p].id, TRUE)]
               /\ Goto(p, "getPermissions_resolve")
  /\ UNCHANGED <<store, now, op, arg, events, pre, lastAdd, seed>>

\* getPermissions_resolve with the event.emit hoisted above "if (!record)"
getPermissions_resolve_emitFirst(p) ==
  /\ pc[p] = "getPermissions_resolve"
  /\ LET user == arg[p].user
         id == arg[p].id
         record == local[p].record
         action == READ
         permission == getPermission(user, FALSE, action, rolePermissionResource)
         ended == now
     IN /\ local' = [local EXCEPT ![p].resolved = TRUE, ![p].permission = permission]
        /\ IF permission.granted
           THEN /\ emit(p, action, Activity(user, NullObject, rolePermissionResource,
                                            Some([id |-> id, type |-> resource]),
                                            ended, ended - local[p].started, action))
                /\ IF ~record.some
                   THEN Throw(p, RecordNotFoundException(id))
                   ELSE \E filterFails \in BOOLEAN :
                          IF filterFails THEN Throw(p, FilterFailure)
                          ELSE Return(p, applyAll(permission.masks, record.v.permissions))
           ELSE /\ Throw(p, UserNotAuthorizedException(user, action, rolePermissionResource))
                /\ UNCHANGED events
  /\ UNCHANGED <<store, now, op, arg, storeLog, pre, lastAdd, seed>>

getPermissions_resolve(p) ==
  /\ pc[p] = "getPermissions_resolve"
  /\ LET user == arg[p].user
         id == arg[p].id
         record == local[p].record
         action == READ
         permission == getPermission(user, FALSE, action, rolePermissionResource)
         ended == now
     IN /\ local' = [local EXCEPT ![p].resolved = TRUE, ![p].permission = permission]
        /\ IF permission.granted
           THEN IF ~record.some
                THEN Throw(p, RecordNotFoundException(id)) /\ UNCHANGED events
                ELSE /\ emit(p, action, Activity(user, NullObject, rolePermissionResource,
                                                 Some([id |-> id, type |-> resource]),
                                                 ended, ended - local[p].started, action))
                     /\ \E filterFails \in BOOLEAN :
                          IF filterFails THEN Throw(p, FilterFailure)
                          ELSE Return(p, applyAll(permission.masks, record.v.permissions))
           ELSE /\ Throw(p, UserNotAuthorizedException(user, action, rolePermissionResource))
                /\ UNCHANGED events
  /\ UNCHANGED <<store, now, op, arg, storeLog, pre, lastAdd, seed>>

----------------------------------------------------------------------------
(* RoleDao.addPermission *)

addPermission(p, user, id, data) ==
  /\ Begin(p, "addPermission", [NoArgs EXCEPT !.user = user, !.id = id, !.data = data])
  /\ pc' = [pc EXCEPT ![p] = "addPermission_resolve"]

addPermission_resolve(p) ==
  /\ pc[p] = "addPermission_resolve"
  /\ LET user == arg[p].user
         action == CREATE
         permission == getPermission(user, FALSE, action, rolePermissionResource)
     IN /\ local' = [local EXCEPT ![p].resolved = TRUE, ![p].permission = permission]
        /\ IF permission.granted
           THEN Goto(p, "addPermission_findOne")
           ELSE Throw(p, UserNotAuthorizedException(user, action, rolePermissionResource))
  /\ UNCHANGED <<store, now, op, arg, events, storeLog, pre, lastAdd, seed>>

\* await roleRepository.findOne(...), the push and the filter
addPermission_findOne(p) ==
  /\ pc[p] = "addPermission_findOne"
  /\ LET id == arg[p].id
         newRecord == arg[p].data
         permission == local[p].permission
         found == findOne(store, id, TRUE)
     IN \E failure \in BOOLEAN :
          /\ StoreCall(p, "findOne", ~failure, NoData, IF failure THEN None ELSE found)
          /\ IF failure
             THEN Throw(p, StoreFailure) /\ UNCHANGED local
             ELSE IF found.some
                  THEN LET recordToUpdate ==
                             [found.v EXCEPT !.permissions = push(@, newRecord)]
                       IN \E filterFails \in BOOLEAN :
                            IF filterFails
                            THEN /\ Throw(p, FilterFailure)
                                 /\ local' = [local EXCEPT ![p].record = Some(recordToUpdate)]
                            ELSE /\ local' = [local EXCEPT
                                                ![p].record = Some(recordToUpdate),
                                                ![p].filteredData =
                                                   Some(apply(permission.masks, recordToUpdate))]
                                 /\ Goto(p, "addPermission_save")
                  ELSE Throw(p, RecordNotFoundException(id)) /\ UNCHANGED local
  /\ UNCHANGED <<store, now, op, arg, events, pre, lastAdd, seed>>

\* await roleRepository.save(recordToUpdate) and the rest of the handler
addPermission_save(p) ==
  /\ pc[p] = "addPermission_save"
  /\ LET user == arg[p].user
         id == arg[p].id
         recordToUpdate == local[p].record.v
         filteredData == local[p].filteredData.v
         ended == now
     IN \E failure \in BOOLEAN :
          /\ StoreCall(p, "save", ~failure, recordToUpdate, None)
          /\ IF failure
             THEN Throw(p, StoreFailure) /\ UNCHANGED <<store, events>>
             ELSE /\ store' = StoreSave(store, recordToUpdate)
                  /\ emit(p, ADD, Activity(user, [id |-> recordToUpdate.id, type |-> "permission"],
                                           rolePermissionResource,
                                           Some([id |-> id, type |-> resource]),
                                           ended, ended - local[p].started, ADD))
                  /\ Return(p, filteredData)
  /\ UNCHANGED <<now, op, arg, local, pre, lastAdd, seed>>

----------------------------------------------------------------------------
(* RoleDao.removePermission *)

removePermission(p, user, id, permissionId) ==
  /\ Begin(p, "removePermission",
           [NoArgs EXCEPT !.user = user, !.id = id, !.permissionId = permissionId])
  /\ pc' = [pc EXCEPT ![p] = "removePermission_resolve"]

removePermission_resolve(p) ==
  /\ pc[p] = "removePermission_resolve"
  /\ LET user == arg[p].user
         action == DELETE
         permission == getPermission(user, FALSE, action, rolePermissionResource)
     IN /\ local' = [local EXCEPT ![p].resolved = TRUE, ![p].permission = permission]
        /\ IF permission.granted
           THEN Goto(p, "removePermission_findOne")
           ELSE Throw(p, UserNotAuthorizedException(user, action, rolePermissionResource))
  /\ UNCHANGED <<store, now, op, arg, events, storeLog, pre, lastAdd, seed>>

\* relation.id === permissionId: a number is never identical to a string
SameId_strict(relation, permissionId) == FALSE

\* String(relation.id) !== String(permissionId)
SameId_inverted(relation, permissionId) == String(relation.id) # permissionId

\* String(relation.id) === String(permissionId); permissionId is a string already
SameId(relation, permissionId) == String(relation.id) = permissionId

\* the loop over recordToUpdate.permissions
updatedPermissions(permissions, permissionId) ==
  SelectSeq(permissions, LAMBDA relation : ~SameId(relation, permissionId))

removedItem(permissions, permissionId) ==
  LET matching == SelectSeq(permissions, LAMBDA relation : SameId(relation, permissionId))
  IN IF matching = <<>> THEN None ELSE Some(matching[Len(matching)])

\* await roleRepository.findOne(...), the loop, and either the first save's call
\* or the filter and the second save's call
removePermission_findOne(p) ==
  /\ pc[p] = "removePermission_findOne"
  /\ LET id == arg[p].id
         permissionId == arg[p].permissionId
         permission == local[p].permission
         recordToUpdate == findOne(store, id, TRUE)
     IN \E failure \in BOOLEAN :
          /\ StoreCall(p, "findOne", ~failure, NoData, IF failure THEN None ELSE recordToUpdate)
          /\ IF failure
             THEN Throw(p, StoreFailure) /\ UNCHANGED local
             ELSE IF recordToUpdate.some
                  THEN IF removedItem(recordToUpdate.v.permissions, permissionId).some
                       THEN /\ local' = [local EXCEPT ![p].record =
                                   Some([recordToUpdate.v EXCEPT !.permissions =
                                           updatedPermissions(@, permissionId)])]
                            /\ Goto(p, "removePermission_save1")
                       ELSE \E filterFails \in BOOLEAN :
                              IF filterFails
                              THEN /\ Throw(p, FilterFailure)
                                   /\ local' = [local EXCEPT ![p].record = recordToUpdate]
                              ELSE /\ local' = [local EXCEPT
                                                  ![p].record = recordToUpdate,
                                                  ![p].filteredData =
                                                     Some(apply(permission.masks, recordToUpdate.v))]
                                   /\ Goto(p, "removePermission_save2")
                  ELSE Throw(p, RecordNotFoundException(id)) /\ UNCHANGED local
  /\ UNCHANGED <<store, now, op, arg, events, pre, lastAdd, seed>>

\* removePermission_save1 with the first save's failure caught and ignored
removePermission_save1_swallows(p) ==
  /\ pc[p] = "removePermission_save1"
  /\ LET recordToUpdate == local[p].record.v
         permission == local[p].permission
     IN \E failure \in BOOLEAN :
          /\ StoreCall(p, "save", ~failure, recordToUpdate, None)
          /\ store' = IF failure THEN store ELSE StoreSave(store, recordToUpdate)
          /\ \E filterFails \in BOOLEAN :
               IF filterFails
               THEN Throw(p, FilterFailure) /\ UNCHANGED local
               ELSE /\ local' = [local EXCEPT ![p].filteredData =
                                   Some(apply(permission.masks, recordToUpdate))]
                    /\ Goto(p, "removePermission_save2")
  /\ UNCHANGED <<now, op, arg, events, pre, lastAdd, seed>>

\* the save inside "if (removedItem)", then the filter
removePermission_save1(p) ==
  /\ pc[p] = "removePermission_save1"
  /\ LET recordToUpdate == local[p].record.v
         permission == local[p].permission
     IN \E failure \in BOOLEAN :
          /\ StoreCall(p, "save", ~failure, recordToUpdate, None)
          /\ IF failure
             THEN Throw(p, StoreFailure) /\ UNCHANGED <<store, local>>
             ELSE /\ store' = StoreSave(store, recordToUpdate)
                  /\ \E filterFails \in BOOLEAN :
                       IF filterFails
                       THEN Throw(p, FilterFailure) /\ UNCHANGED local
                       ELSE /\ local' = [local EXCEPT ![p].filteredData =
                                           Some(apply(permission.masks, recordToUpdate))]
                            /\ Goto(p, "removePermission_save2")
  /\ UNCHANGED <<now, op, arg, events, pre, lastAdd, seed>>

\* removePermission_save2 with took computed as started - ended
removePermission_save2_tookReversed(p) ==
  /\ pc[p] = "removePermission_save2"
  /\ LET user == arg[p].user
         id == arg[p].id
         permissionId == arg[p].permissionId
         recordToUpdate == local[p].record.v
         filteredData == local[p].filteredData.v
         ended == now
     IN \E failure \in BOOLEAN :
          /\ StoreCall(p, "save", ~failure, recordToUpdate, None)
          /\ IF failure
             THEN Throw(p, StoreFailure) /\ UNCHANGED <<store, events>>
             ELSE /\ store' = StoreSave(store, recordToUpdate)
                  /\ emit(p, REMOVE, Activity(user, [id |-> permissionId, type |-> "permission"],
                                              rolePermissionResource,
                                              Some([id |-> id, type |-> resource]),
                                              ended, local[p].started - ended, REMOVE))
                  /\ Return(p, filteredData)
  /\ UNCHANGED <<now, op, arg, local, pre, lastAdd, seed>>

\* the unconditional save and the rest of the handler
removePermission_save2(p) ==
  /\ pc[p] = "removePermission_save2"
  /\ LET user == arg[p].user
         id == arg[p].id
         permissionId == arg[p].permissionId
         recordToUpdate == local[p].record.v
         filteredData == local[p].filteredData.v
         ended == now
     IN \E failure \in BOOLEAN :
          /\ StoreCall(p, "save", ~failure, recordToUpdate, None)
          /\ IF failure
             THEN Throw(p, StoreFailure) /\ UNCHANGED <<store, events>>
             ELSE /\ store' = StoreSave(store, recordToUpdate)
                  /\ emit(p, REMOVE, Activity(user, [id |-> permissionId, type |-> "permission"],
                                              rolePermissionResource,
                                              Some([id |-> id, type |-> resource]),
                                              ended, ended - local[p].started, REMOVE))
                  /\ Return(p, filteredData)
  /\ UNCHANGED <<now, op, arg, local, pre, lastAdd, seed>>

----------------------------------------------------------------------------
(* One caller: each call runs to completion before the next begins *)

PermissionInputs == {PermissionEntity(n) : n \in PermIds}

Call(p) ==
  \E user \in Users :
    \/ getAll(p, user)
    \/ \E data \in SaveInputs : save(p, user, data)
    \/ \E id \in RoleIds :
         \/ getOne(p, user, id)
         \/ remove(p, user, id)
         \/ getPermissions(p, user, id)
         \/ \E data \in PermissionInputs : addPermission(p, user, id, data)
         \/ \E permissionId \in PermissionIdArgs : removePermission(p, user, id, permissionId)

Step(p) ==
  \/ getAll_find(p) \/ getAll_resolve(p)
  \/ getOne_findOne(p) \/ getOne_resolve(p)
  \/ save_resolve(p) \/ save_save(p)
  \/ remove_findOne(p) \/ remove_resolve(p) \/ remove_remove(p)
  \/ getPermissions_findOne(p) \/ getPermissions_resolve(p)
  \/ addPermission_resolve(p) \/ addPermission_findOne(p) \/ addPermission_save(p)
  \/ removePermission_resolve(p) \/ removePermission_findOne(p)
  \/ removePermission_save1(p) \/ removePermission_save2(p)

Next ==
  \/ Tick
  \/ \E p \in SeqProcs : Call(p)
  \/ \E p \in SeqProcs : Step(p)
  \/ \E p \in SeqProcs : Settle(p)

Spec == Init /\ [][Next]_vars

----------------------------------------------------------------------------
(* Properties *)

Done(p) == pc[p] = "done"
Denied(p) == local[p].resolved /\ ~local[p].permission.granted
Granted(p) == local[p].resolved /\ local[p].permission.granted

Saves(p) == {i \in 1..Len(storeLog[p]) : storeLog[p][i].call = "save"}
Mutations(p) == {i \in 1..Len(storeLog[p]) : storeLog[p][i].call \in {"save", "remove"}}

\* the store answered a findOne of the call with "absent"
ReportedAbsent(p) ==
  \E i \in 1..Len(storeLog[p]) :
    storeLog[p][i].call = "findOne" /\ storeLog[p][i].ok /\ ~storeLog[p][i].result.some

\* the role the call's findOne returned
FoundRole(p) ==
  LET i == CHOOSE j \in 1..Len(storeLog[p]) : storeLog[p][j].call = "findOne"
  IN storeLog[p][i].result

ReportedPresent(p) ==
  \E i \in 1..Len(storeLog[p]) :
    storeLog[p][i].call = "findOne" /\ storeLog[p][i].ok /\ storeLog[p][i].result.some

Ids(permissions) == {permissions[i].id : i \in 1..Len(permissions)}

Unique(permissions) ==
  \A i, j \in 1..Len(permissions) : permissions[i].id = permissions[j].id => i = j

\* C1: whenever permission resolution returns granted=false the operation is over,
\* its outcome is UserNotAuthorizedException(actor id, resolved action, resolved
\* resource), and it has emitted no ActivityRecord.
C1_DeniedIsUnauthorizedAndSilent ==
  \A p \in Procs :
    Denied(p) =>
      /\ Done(p)
      /\ outcome[p] = UserNotAuthorizedException(arg[p].user, local[p].permission.action,
                                                 local[p].permission.resource)
      /\ local[p].permission.resource =
           IF op[p] \in {"getPermissions", "addPermission", "removePermission"}
           THEN rolePermissionResource ELSE resource
      /\ events[p] = <<>>

C1_Witness ==
  \E p \in Procs : Done(p) /\ Denied(p) /\ op[p] = "getPermissions" /\ arg[p].user = "guest"

\* C2: a call whose permission resolution returned granted=false has made no store call.
C2_DeniedMakesNoStoreCall ==
  \A p \in Procs : Denied(p) => storeLog[p] = <<>>

\* C3: every value handed to the store's save is the output of the resolved filter:
\* filtering it again with the resolved attribute mask changes nothing.
C3_SavedValueIsFiltered ==
  \A p \in Procs : \A i \in Saves(p) :
    storeLog[p][i].handed = apply(storeLog[p][i].masks, storeLog[p][i].handed)

\* C4: a finished operation has emitted exactly one ActivityRecord if it returned
\* successfully and none if it ended in an error.
C4_OneRecordIffSuccess ==
  \A p \in Procs :
    Done(p) => Len(events[p]) = (IF outcome[p].kind = "ok" THEN 1 ELSE 0)

\* C5: a finished operation that changed the stored data has emitted an ActivityRecord.
C5_ChangedStoreIsAudited ==
  \A p \in Procs :
    (Done(p) /\ store # pre[p]) => events[p] # <<>>

\* C6 (as claimed): a finished operation has emitted an ActivityRecord if and only if
\* its permission resolution returned granted=true.
C6_RecordIffGranted ==
  \A p \in Procs :
    Done(p) => (Granted(p) <=> events[p] # <<>>)

\* C6 (amended): an operation that returns successfully was granted and has emitted
\* one ActivityRecord, and no operation emits one unless resolution returned granted.
C6_RecordIfGrantedAndSuccessful ==
  \A p \in Procs :
    /\ (Done(p) /\ outcome[p].kind = "ok") => (Granted(p) /\ Len(events[p]) = 1)
    /\ ~Granted(p) => events[p] = <<>>

C6_Witness ==
  \E p \in Procs : Done(p) /\ outcome[p].kind = "ok" /\ op[p] = "remove" /\ Len(events[p]) = 1

\* C7: a granted getOne, remove, getPermissions, addPermission or removePermission
\* whose findOne reports the role absent ends with RecordNotFoundException(id), emits
\* no ActivityRecord, makes no save/remove call and leaves the store as it was.
C7_AbsentRoleIsNotFound ==
  \A p \in Procs :
    (Done(p) /\ Granted(p) /\ ReportedAbsent(p)) =>
      /\ op[p] \in {"getOne", "remove", "getPermissions", "addPermission", "removePermission"}
      /\ outcome[p] = RecordNotFoundException(arg[p].id)
      /\ events[p] = <<>>
      /\ Mutations(p) = {}
      /\ store = pre[p]

C7_Witness ==
  \E p \in Procs :
    Done(p) /\ Granted(p) /\ ReportedAbsent(p) /\ op[p] = "getPermissions"

\* the call is a successful removePermission(role, item.id) that directly follows a
\* successful addPermission(role, item)
RemoveAfterAdd(p) ==
  /\ Done(p) /\ op[p] = "removePermission" /\ outcome[p].kind = "ok"
  /\ lastAdd[p].some
  /\ lastAdd[p].id = arg[p].id
  /\ String(lastAdd[p].item) = arg[p].permissionId

\* C8 (as claimed): addPermission(role, item) then removePermission(role, item.id)
\* leaves the role's stored membership set as it was before the add.
C8_AddThenRemoveRestores ==
  \A p \in Procs :
    RemoveAfterAdd(p) => store[arg[p].id].v.permissions = lastAdd[p].before

\* C8 (amended): the set is restored when the item was not a member before the add;
\* when it was, the pair leaves the original set without the item.
C8_AddThenRemoveRestoresNonMember ==
  \A p \in Procs :
    RemoveAfterAdd(p) =>
      store[arg[p].id].v.permissions = lastAdd[p].before \ {lastAdd[p].item}

C8_Witness ==
  \E p \in Procs :
    /\ RemoveAfterAdd(p)
    /\ lastAdd[p].item \notin lastAdd[p].before
    /\ lastAdd[p].before # {}
    /\ store[arg[p].id].v.permissions = lastAdd[p].before

\* a granted removePermission found the role and the permissionId is not among its
\* permissions
RemoveOfNonMember(p) ==
  /\ op[p] = "removePermission" /\ Granted(p) /\ ReportedPresent(p)
  /\ \A n \in Ids(FoundRole(p).v.permissions) : String(n) # arg[p].permissionId

\* C9: a granted removePermission of a non-member id never changes the membership
\* set and, unless the store or the filter fails, returns successfully after one
\* store save and one ActivityRecord of type remove.
C9_RemoveNonMemberIsNoop ==
  \A p \in Procs :
    RemoveOfNonMember(p) =>
      /\ store[arg[p].id].some
      /\ store[arg[p].id].v.permissions = pre[p][arg[p].id].v.permissions
      /\ (Done(p) /\ outcome[p].kind \notin {"StoreFailure", "FilterFailure"}) =>
           /\ outcome[p].kind = "ok"
           /\ Cardinality(Saves(p)) = 1
           /\ \A i \in Saves(p) : storeLog[p][i].ok /\ storeLog[p][i].handed.id = arg[p].id
           /\ Len(events[p]) = 1
           /\ events[p][1].name = REMOVE
           /\ events[p][1].activity.type = REMOVE

C9_Witness ==
  \E p \in Procs :
    /\ RemoveOfNonMember(p) /\ Done(p) /\ outcome[p].kind = "ok"
    /\ pre[p][arg[p].id].v.permissions # {}

\* C10: every permission collection handed to the store's save or returned by
\* addPermission / removePermission holds each Permission id at most once.
C10_PermissionsUnique ==
  \A p \in Procs :
    op[p] \in {"addPermission", "removePermission"} =>
      /\ \A i \in Saves(p) : Unique(storeLog[p][i].handed.permissions)
      /\ (Done(p) /\ outcome[p].kind = "ok") => Unique(ret[p].v.permissions)

\* the store step of a mutating call has succeeded: its last save/remove call is ok
StoreStepSucceeded(p) ==
  /\ Mutations(p) # {}
  /\ \A i \in Mutations(p) : storeLog[p][i].ok
  /\ storeLog[p][Len(storeLog[p])].call \in {"save", "remove"}

C12_TookIsElapsedTime ==
  \A p \in Procs : \A i \in 1..Len(events[p]) :
    LET activity == events[p][i].activity
    IN /\ activity.took >= 0
       /\ activity.timestamp >= local[p].started
       /\ activity.took = activity.timestamp - local[p].started

C12_Witness ==
  \E p \in Procs :
    /\ op[p] = "removePermission" /\ Len(events[p]) = 1
    /\ events[p][1].activity.took > 0

\* the answer of the call's find
FoundRecords(p) ==
  LET i == CHOOSE j \in 1..Len(storeLog[p]) : storeLog[p][j].call = "find"
  IN storeLog[p][i]

\* C13: a granted getAll whose find returns an empty collection is not a not-found
\* error: unless the filter fails it returns data of length 0 with length = total = 0
\* after one ActivityRecord of type read; RecordsNotFoundException is raised only
\* when find returned no collection at all.
C13_EmptyListIsSuccess ==
  \A p \in Procs :
    (Done(p) /\ op[p] = "getAll") =>
      /\ (/\ Granted(p) /\ FoundRecords(p).ok /\ FoundRecords(p).result.some
          /\ FoundRecords(p).result.v = <<>>
          /\ outcome[p].kind # "FilterFailure") =>
           /\ outcome[p].kind = "ok"
           /\ Len(events[p]) = 1
           /\ events[p][1].activity.type = READ
           /\ ret[p].v.data = <<>>
           /\ ret[p].v.length = 0
           /\ ret[p].v.total = 0
      /\ outcome[p].kind = "RecordsNotFoundException" =>
           FoundRecords(p).ok /\ ~FoundRecords(p).result.some

C13_Witness ==
  \E p \in Procs :
    /\ Done(p) /\ op[p] = "getAll" /\ Granted(p)
    /\ FoundRecords(p).ok /\ FoundRecords(p).result.some /\ FoundRecords(p).result.v = <<>>
    /\ outcome[p].kind = "ok"

\* C14: a store call that fails is the call's last store call, the call ends with
\* that failure, and it has emitted no ActivityRecord.
C14_StoreFailurePropagates ==
  \A p \in Procs : \A i \in 1..Len(storeLog[p]) :
    ~storeLog[p][i].ok =>
      /\ i = Len(storeLog[p])
      /\ Done(p)
      /\ outcome[p] = StoreFailure
      /\ events[p] = <<>>
      /\ ~ret[p].some

C14_Witness ==
  \E p \in Procs :
    /\ Done(p) /\ op[p] = "removePermission" /\ Len(storeLog[p]) = 2
    /\ storeLog[p][1].ok /\ storeLog[p][2].call = "save" /\ ~storeLog[p][2].ok

----------------------------------------------------------------------------
(* Two callers: addPermission / removePermission calls on one role interleave at
   their awaits *)

CallConc(p) ==
  \/ \E data \in PermissionInputs : addPermission(p, "admin", "r1", data)
  \/ \E permissionId \in PermissionIdArgs : removePermission(p, "admin", "r1", permissionId)

StepConc(p) ==
  \/ addPermission_resolve(p) \/ addPermission_findOne(p) \/ addPermission_save(p)
  \/ removePermission_resolve(p) \/ removePermission_findOne(p)
  \/ removePermission_save1(p) \/ removePermission_save2(p)

\* each caller makes one call
NextConc ==
  \/ \E p \in Procs : CallConc(p)
  \/ \E p \in Procs : StepConc(p)

SpecConc == Init /\ [][NextConc]_vars

\* two calls that both returned successfully from addPermission of different items
\* to the same role
BothAdded(p, q) ==
  /\ p # q
  /\ Done(p) /\ Done(q)
  /\ op[p] = "addPermission" /\ op[q] = "addPermission"
  /\ outcome[p].kind = "ok" /\ outcome[q].kind = "ok"
  /\ arg[p].id = arg[q].id
  /\ arg[p].data.id # arg[q].data.id

\* C15: two concurrent successful addPermission calls on one role each emit their
\* ActivityRecord, and the store keeps the item of at least one of them (the one
\* that saved last); the witness is the interleaving in which the other is lost.
C15_ConcurrentAddsKeepLastWriter ==
  \A p, q \in Procs :
    BothAdded(p, q) =>
      /\ Len(events[p]) = 1 /\ Len(events[q]) = 1
      /\ events[p][1].activity.type = ADD /\ events[q][1].activity.type = ADD
      /\ \/ arg[p].data.id \in store[arg[p].id].v.permissions
         \/ arg[q].data.id \in store[arg[q].id].v.permissions

C15_Witness ==
  \E p, q \in Procs :
    /\ BothAdded(p, q)
    /\ Len(events[p]) = 1 /\ Len(events[q]) = 1
    /\ arg[p].data.id \notin store[arg[p].id].v.permissions
    /\ arg[q].data.id \in store[arg[q].id].v.permissions

----------------------------------------------------------------------------
(* Seed data: createTestData *)

userSearchPermission == [resource |-> "search", action |-> "read:any", attributes |-> "*"]
adminUserViewPermission == [resource |-> "users", action |-> "read:any", attributes |-> "*"]
userUserViewPermission == [resource |-> "users", action |-> "read:any", attributes |-> "*, !age"]
adminUserCreatePermission == [resource |-> "users", action |-> "create:any", attributes |-> "*"]
adminUserUpdatePermission == [resource |-> "users", action |-> "update:any", attributes |-> "*"]
adminUserDeletePermission == [resource |-> "users", action |-> "update:any", attributes |-> "*"]

userRole ==
  [id |-> "user", description |-> "Authenticated user with basic privileges",
   permissions |-> <<userSearchPermission, userUserViewPermission>>]

adminRole ==
  [id |-> "admin", description |-> "Administrative user with all privileges",
   permissions |-> <<adminUserViewPermission, adminUserCreatePermission,
                     adminUserUpdatePermission, adminUserDeletePermission>>]

SeedPermissions ==
  {userSearchPermission, adminUserViewPermission, userUserViewPermission,
   adminUserCreatePermission, adminUserUpdatePermission, adminUserDeletePermission}

\* a role row the database may hold before the seed runs
PriorRoles(id) ==
  {None} \cup {Some([id |-> id, description |-> "", permissions |-> perms]) :
                 perms \in UNION {[1..n -> SeedPermissions] : n \in 0..MaxPriorPerms}}

\* createTestData(connection): the databases it may be run against
InitSeed ==
  /\ seed \in {[step |-> 0, roles |-> roles, users |-> <<>>] :
                 roles \in {[id \in {"user", "admin"} |->
                               IF id = "user" THEN u ELSE a] :
                              u \in PriorRoles("user"), a \in PriorRoles("admin")}}
  /\ store = [id \in RoleIds |->
                IF id = "r1" THEN Some([description |-> "d0", permissions |-> {}]) ELSE None]
  /\ now = 0
  /\ pc = [p \in Procs |-> "idle"]
  /\ op = [p \in Procs |-> "-"]
  /\ arg = [p \in Procs |-> NoArgs]
  /\ local = [p \in Procs |-> NoLocal]
  /\ outcome = [p \in Procs |-> Pending]
  /\ ret = [p \in Procs |-> None]
  /\ events = [p \in Procs |-> <<>>]
  /\ storeLog = [p \in Procs |-> <<>>]
  /\ pre = [p \in Procs |-> store]
  /\ lastAdd = [p \in Procs |-> NoAdd]

\* the outcome of "await connection.manager.save(entity)": a rejection ends
\* createTestData
Saved(failure, saved) == IF failure THEN [seed EXCEPT !.step = -1] ELSE saved

createTestData_saveUserRole ==
  /\ seed.step = 0
  /\ \E failure \in BOOLEAN :
       seed' = Saved(failure, [seed EXCEPT !.step = 1, !.roles["user"] = Some(userRole)])
  /\ UNCHANGED <<store, now, pc, op, arg, local, outcome, ret, events, storeLog, pre, lastAdd>>

createTestData_saveAdminRole ==
  /\ seed.step = 1
  /\ \E failure \in BOOLEAN :
       seed' = Saved(failure, [seed EXCEPT !.step = 2, !.roles["admin"] = Some(adminRole)])
  /\ UNCHANGED <<store, now, pc, op, arg, local, outcome, ret, events, storeLog, pre, lastAdd>>

createTestData_saveBasicUser ==
  /\ seed.step = 2
  /\ \E failure \in BOOLEAN :
       seed' = Saved(failure,
                     [seed EXCEPT !.step = 3,
                                  !.users = Append(@, [firstName |-> "Basic",
                                                       lastName |-> "User", age |-> 18,
                                                       roles |-> <<userRole.id>>])])
  /\ UNCHANGED <<store, now, pc, op, arg, local, outcome, ret, events, storeLog, pre, lastAdd>>

createTestData_saveAdminUser ==
  /\ seed.step = 3
  /\ \E failure \in BOOLEAN :
       seed' = Saved(failure,
                     [seed EXCEPT !.step = 4,
                                  !.users = Append(@, [firstName |-> "Admin",
                                                       lastName |-> "User", age |-> 30,
                                                       roles |-> <<adminRole.id>>])])
  /\ UNCHANGED <<store, now, pc, op, arg, local, outcome, ret, events, storeLog, pre, lastAdd>>

NextSeed ==
  \/ createTestData_saveUserRole
  \/ createTestData_saveAdminRole
  \/ createTestData_saveBasicUser
  \/ createTestData_saveAdminUser

SpecSeed == InitSeed /\ [][NextSeed]_vars

----------------------------------------------------------------------------
(* Properties, continued *)

\* C16: the filter is applied before the ActivityRecord is emitted: a call whose
\* filtering step failed has emitted no ActivityRecord.
C16_FilterPrecedesEmit ==
  \A p \in Procs : outcome[p].kind = "FilterFailure" => events[p] = <<>>

\* C17: once createTestData has saved the admin role, the role holds a permission
\* with attributes "*" on "users" for each of create:any, read:any, update:any and
\* delete:any.
C17_AdminHasAllUserPrivileges ==
  seed.step >= 2 =>
    \A action \in {"create:any", "read:any", "update:any", "delete:any"} :
      \E i \in 1..Len(seed.roles["admin"].v.permissions) :
        seed.roles["admin"].v.permissions[i] =
          [resource |-> "users", action |-> action, attributes |-> "*"]

\* what each handler resolves and emits
ExpectedAction(p) ==
  CASE op[p] \in {"getAll", "getOne", "getPermissions"} -> READ
    [] op[p] \in {"remove", "removePermission"} -> DELETE
    [] op[p] = "addPermission" -> CREATE
    [] op[p] = "save" -> IF "id" \in DOMAIN arg[p].data THEN UPDATE ELSE CREATE

ExpectedResource(p) ==
  IF op[p] \in {"getPermissions", "addPermission", "removePermission"}
  THEN rolePermissionResource ELSE resource

ExpectedType(p) ==
  CASE op[p] = "addPermission" -> ADD
    [] op[p] = "removePermission" -> REMOVE
    [] OTHER -> ExpectedAction(p)

\* the actor holds no Permission qualifying for the call
HoldsNoGrant(p) ==
  ~getPermission(arg[p].user, FALSE, ExpectedAction(p), ExpectedResource(p)).granted

\* C18: the outcome of a finished getOne, remove, getPermissions, addPermission or
\* removePermission of an actor without a qualifying Permission is a function of the
\* actor and the handler alone, whether or not the store holds the role id: it is
\* UserNotAuthorizedException, never RecordNotFoundException, with no ActivityRecord.
C18_DenialHidesExistence ==
  \A p \in Procs :
    (/\ Done(p)
     /\ op[p] \in {"getOne", "remove", "getPermissions", "addPermission", "removePermission"}
     /\ HoldsNoGrant(p)
     /\ \A i \in 1..Len(storeLog[p]) : storeLog[p][i].ok) =>
      /\ outcome[p] = UserNotAuthorizedException(arg[p].user, ExpectedAction(p),
                                                 ExpectedResource(p))
      /\ events[p] = <<>>
      /\ ~ret[p].some

C18_Witness ==
  \E p \in Procs :
    /\ Done(p) /\ op[p] = "remove" /\ HoldsNoGrant(p)
    /\ ~store[arg[p].id].some /\ ReportedAbsent(p)
    /\ outcome[p].kind = "UserNotAuthorizedException"

\* C19: every emitted record is emitted under its own type and carries the resource
\* permission was resolved against; the type is the resolved action, except that
\* addPermission resolves create and emits add, and removePermission resolves delete
\* and emits remove, both on "rolepermission".
C19_EventTypeAndResource ==
  \A p \in Procs :
    /\ local[p].resolved =>
         /\ local[p].permission.action = ExpectedAction(p)
         /\ local[p].permission.resource = ExpectedResource(p)
    /\ \A i \in 1..Len(events[p]) :
         /\ events[p][i].name = events[p][i].activity.type
         /\ events[p][i].activity.resource = local[p].permission.resource
         /\ events[p][i].activity.type = ExpectedType(p)

C19_Witness ==
  \E p \in Procs :
    /\ op[p] = "addPermission" /\ Len(events[p]) = 1
    /\ local[p].permission.action = CREATE
    /\ events[p][1].name = ADD
    /\ events[p][1].activity.resource = rolePermissionResource

====
